---- MODULE Spec2Model ----
(***************************************************************************)
(* Model of metaflow/includefile.py: InternalFile (single file resolver),  *)
(* MultipleFiles (named collection built by FileGlobClass.convert) and the *)
(* size-formatting loop of InternalFile.handle_local_file.                 *)
(*                                                                         *)
(* Paths and generated names are sequences of one-character strings.       *)
(* Byte counts are little-endian sequences of base-1024 digits, so that    *)
(* counts of 1024**4 and more are represented exactly: sz // 1024 drops    *)
(* the lowest digit and sz >= 1024 holds iff there is more than one digit. *)
(***************************************************************************)
EXTENDS Integers, Sequences, FiniteSets, TLC

VARIABLES
    \* InternalFile and the /tmp directory
    path, is_text, size, origin, resolved, fsTmp, ncalls, stagedTmps, last,
    \* MultipleFiles under FileGlobClass.convert
    base_name, files, matches, idx, pc, name, ending, order, skipped,
    \* the size formatting loop on its own
    fmt_n, fmt_out

resolverVars == <<path, is_text, size, origin, resolved, fsTmp, ncalls, stagedTmps, last>>
filesVars == <<base_name, files, matches, idx, pc, name, ending, order, skipped>>
fmtVars == <<fmt_n, fmt_out>>
vars == <<resolverVars, filesVars, fmtVars>>

----------------------------------------------------------------------------
(* Bounds *)

MaxDigits == 6        \* byte counts have at most this many base-1024 digits
MaxCalls == 3         \* resolve() calls in one behaviour
NumDigitChars == 2    \* how many characters of string.digits the model draws from

----------------------------------------------------------------------------
(* Byte counts *)

K == 1024

Zero == <<0>>

RECURSIVE Bytes(_)
Bytes(n) == IF n < K THEN <<n>> ELSE <<n % K>> \o Bytes(n \div K)

\* sz >= 1024
Ge1024(sz) == Len(sz) > 1

\* sz // 1024
Div1024(sz) == IF Len(sz) > 1 THEN Tail(sz) ELSE Zero

\* 1024 ** k
Pow1024(k) == [i \in 1..(k + 1) |-> IF i = k + 1 THEN 1 ELSE 0]

DigitSamples == {0, 1, K - 1}

ByteCounts ==
    LET seqs == UNION {[1..l -> DigitSamples] : l \in 1..MaxDigits}
    IN {s \in seqs : Len(s) = 1 \/ s[Len(s)] # 0} \cup {Bytes(5000)}

----------------------------------------------------------------------------
(* The size formatting loop, handle_local_file lines 57-67 *)

unit == <<"B", "KB", "MB", "GB", "TB">>

LargePos == 3

loop_cond(sz, pos) == pos < Len(unit) /\ Ge1024(sz)

RECURSIVE fmt_loop(_, _, _)
fmt_loop(sz, pos, steps) ==
    IF loop_cond(sz, pos)
    THEN fmt_loop(Div1024(sz), pos + 1, steps + 1)
    ELSE [sz |-> sz, pos |-> pos, steps |-> steps]

\* unit[pos] with pos counted from 0; raises IndexError past the end
SizeFormatter(n) ==
    LET r == fmt_loop(n, 0, 0)
        extra == IF r.pos >= LargePos THEN "(this may take a while)" ELSE ""
    IN IF r.pos + 1 \in DOMAIN unit
       THEN [raised |-> "none", sz |-> r.sz, pos |-> r.pos, steps |-> r.steps,
             unit |-> unit[r.pos + 1], extra |-> extra]
       ELSE [raised |-> "IndexError", sz |-> r.sz, pos |-> r.pos, steps |-> r.steps,
             unit |-> "", extra |-> extra]

NoFmt == [raised |-> "pending", sz |-> Zero, pos |-> 0, steps |-> 0,
          unit |-> "", extra |-> ""]

----------------------------------------------------------------------------
(* Paths *)

S3Prefix == <<"s", "3", ":", "/", "/">>

\* str.startswith
startswith(s, prefix) ==
    Len(s) >= Len(prefix) /\ SubSeq(s, 1, Len(prefix)) = prefix

LocalFile == <<"d", "/", "f">>
LocalGone == <<"d", "/", "g">>
NearS3 == <<"s", "3", ":", "/", "f">>
RemoteFile == <<"s", "3", ":", "/", "/", "b", "/", "k">>

FilePathValues == {LocalFile, LocalGone, NearS3, RemoteFile}

\* Paths a glob pattern matches
PA == <<"p", "/", "a", ".", "t">>
QA == <<"q", "/", "a", ".", "t">>
SA == <<"s", "/", "a", ".", "t">>
UA == <<"u", "/", "a", ".", "t">>
ASpaceT == <<"a", " ", "t">>
AMinusT == <<"r", "/", "a", "-", "t">>
APlusT == <<"a", "+", "t">>
JustB == <<"b">>
AT00 == <<"a", ".", "t", "0", "0">>
SubDir == <<"x", "/", "y">>
ATxt == <<"a", ".", "t", "x", "t">>
ACopyTxt == <<"a", " ", "(", "c", "o", "p", "y", ")", ".", "t", "x", "t">>
BBin == <<"b", ".", "b", "i", "n">>

\* glob.glob(value): the matches, in the order the file system lists them
GlobResults ==
    {<<PA, QA, UA, ASpaceT, JustB, AMinusT, APlusT, SA>>,
     <<AT00, PA, SubDir, QA, ASpaceT>>,
     <<ATxt, ACopyTxt, BBin>>}

\* matches that cannot be opened: a file without read permission, a directory
GlobUnreadable == {UA, SubDir}

\* local paths that open(path, mode='r') can open
OpenableFiles ==
    {LocalFile, NearS3, PA, QA, SA, ASpaceT, AMinusT, APlusT, JustB, AT00,
     ATxt, ACopyTxt, BBin}

\* open(path, mode='r') succeeds
can_open(p) == p \in OpenableFiles

\* InternalFile.is_file_handled; ok and the error message kind
is_file_handled(p) ==
    IF startswith(p, S3Prefix) THEN [ok |-> TRUE, err |-> "None"]
    ELSE IF can_open(p) THEN [ok |-> TRUE, err |-> "None"]
    ELSE [ok |-> FALSE, err |-> "Could not open file"]

----------------------------------------------------------------------------
(* InternalFile *)

NoTmp == 0

\* Sizes of the files a resolve() call can meet
FileSizes == {Zero, Bytes(1023), Bytes(5000), Pow1024(3), Pow1024(5)}

ReadOutcomes(text) ==
    IF text THEN {"ok", "decode", "io", "mem"} ELSE {"ok", "io", "mem"}

\* What the collaborators do during one resolve() call: whether the logger
\* accepts the "Fetching" and the "Including file" message, whether
\* s3.get succeeds, whether os.path.getsize succeeds, the size it reports
\* and how the read ends.
CallInputs(text) ==
    [logFetch : BOOLEAN, get : BOOLEAN, stat : BOOLEAN, logInclude : BOOLEAN,
     sz : FileSizes, rd : ReadOutcomes(text)]

handle_s3_file(fs, tmp, in) ==
    LET created == fs \cup {tmp}
    IN IF ~in.logFetch
       THEN [raised |-> "LoggerError", fs |-> created, ret |-> NoTmp, logFailed |-> TRUE]
       ELSE IF ~in.get
       THEN [raised |-> "S3Error", fs |-> created, ret |-> NoTmp, logFailed |-> FALSE]
       ELSE [raised |-> "none", fs |-> created, ret |-> tmp, logFailed |-> FALSE]

\* handle_local_file, lines 68-76: the read. Only an IOError of the binary
\* read is caught and raised again as MetaflowException.
read_file_unwrapped(text, rd) ==
    CASE rd = "ok" -> [raised |-> "none", content |-> IF text THEN "text" ELSE "bytes"]
      [] rd = "decode" -> [raised |-> "UnicodeDecodeError", content |-> "none"]
      [] rd = "io" -> [raised |-> "IOError", content |-> "none"]
      [] OTHER -> [raised |-> "MemoryError", content |-> "none"]

read_file(text, rd) ==
    CASE rd = "ok" -> [raised |-> "none", content |-> IF text THEN "text" ELSE "bytes"]
      [] rd = "decode" -> [raised |-> "UnicodeDecodeError", content |-> "none"]
      [] rd = "io" -> [raised |-> IF text THEN "IOError" ELSE "MetaflowException",
                       content |-> "none"]
      [] OTHER -> [raised |-> "MemoryError", content |-> "none"]

\* The value of self._size is the field `size` of the result.
handle_local_file(self_size, text, in) ==
    IF ~in.stat
    THEN [raised |-> "OSError", at |-> "getsize", size |-> self_size,
          content |-> "none", logFailed |-> FALSE, reads |-> 0]
    ELSE LET f == SizeFormatter(in.sz)
             r == [raised |-> "none", at |-> "return", size |-> in.sz,
                   content |-> "none", logFailed |-> FALSE, reads |-> 0]
         IN IF f.raised # "none"
            THEN [r EXCEPT !.raised = f.raised, !.at = "format"]
            ELSE IF ~in.logInclude
            THEN [r EXCEPT !.raised = "LoggerError", !.at = "logger", !.logFailed = TRUE]
            ELSE LET rd == read_file(text, in.rd)
                 IN [r EXCEPT !.raised = rd.raised, !.content = rd.content, !.reads = 1,
                              !.at = IF rd.raised = "none" THEN "return" ELSE "read"]

\* __call__, lines 84-86: the finally clause
finally_keeps_file(fs, local_file) == fs

finally_unlink(fs, local_file) ==
    IF local_file # NoTmp THEN fs \ {local_file} ELSE fs

\* InternalFile.__call__: the record of one call and the state it leaves.
\* handle_s3_file runs before the try statement is entered.
InternalFile_call(p, self_size, text, fs, tmp, in) ==
    IF startswith(p, S3Prefix)
    THEN LET s == handle_s3_file(fs, tmp, in)
         IN IF s.raised # "none"
            THEN [remote |-> TRUE, staged |-> FALSE, tmp |-> tmp, raised |-> s.raised,
                  at |-> "staging", size |-> self_size, content |-> "none",
                  logFailed |-> s.logFailed, reads |-> 0, fs |-> s.fs, in |-> in]
            ELSE LET h == handle_local_file(self_size, text, in)
                 IN [remote |-> TRUE, staged |-> TRUE, tmp |-> tmp, raised |-> h.raised,
                     at |-> h.at, size |-> h.size, content |-> h.content,
                     logFailed |-> h.logFailed, reads |-> h.reads,
                     fs |-> finally_unlink(s.fs, s.ret), in |-> in]
    ELSE LET h == handle_local_file(self_size, text, in)
         IN [remote |-> FALSE, staged |-> FALSE, tmp |-> NoTmp, raised |-> h.raised,
             at |-> h.at, size |-> h.size, content |-> h.content,
             logFailed |-> h.logFailed, reads |-> h.reads,
             fs |-> finally_unlink(fs, NoTmp), in |-> in]

\* InternalFile.name
InternalFile_name == path

InternalFile_size_unset == Zero

\* InternalFile.size
InternalFile_size == size

NoInputs == [logFetch |-> TRUE, get |-> TRUE, stat |-> TRUE, logInclude |-> TRUE,
             sz |-> Zero, rd |-> "ok"]

NoCall == [remote |-> FALSE, staged |-> FALSE, tmp |-> NoTmp, raised |-> "nocall",
           at |-> "nocall", size |-> Zero, content |-> "none", logFailed |-> FALSE,
           reads |-> 0, fs |-> {}, in |-> NoInputs]

\* InternalFile.__init__ behind FilePathClass.convert
ResolverInit ==
    /\ path \in {v \in FilePathValues : is_file_handled(v).ok}
    /\ is_text \in BOOLEAN
    /\ origin = path
    /\ size = Zero
    /\ resolved = 0
    /\ fsTmp = {}
    /\ ncalls = 0
    /\ stagedTmps = {}
    /\ last = NoCall

\* FilePathClass.convert on a value that is handled: a new InternalFile
FilePathConvert(value, text) ==
    /\ is_file_handled(value).ok
    /\ path' = value
    /\ is_text' = text
    /\ origin' = value
    /\ size' = Zero
    /\ resolved' = 0
    /\ last' = NoCall
    /\ UNCHANGED <<fsTmp, ncalls, stagedTmps>>

\* FilePathClass.convert on a value that is not handled: self.fail(err),
\* no InternalFile is built
FilePathConvertFail(value) ==
    /\ ~is_file_handled(value).ok
    /\ last' = [NoCall EXCEPT !.raised = "BadParameter", !.at = "convert"]
    /\ UNCHANGED <<path, is_text, origin, size, resolved, fsTmp, ncalls, stagedTmps>>

\* The inputs that can matter to a call on path p: a local path meets no
\* "Fetching" message and no s3.get, a freshly staged file can be stat'ed.
InputsFor(p, text) ==
    {in \in CallInputs(text) :
        IF startswith(p, S3Prefix) THEN in.stat ELSE in.logFetch /\ in.get}

\* One resolve() call, f()
Resolve(in) ==
    /\ ncalls < MaxCalls
    /\ in \in InputsFor(path, is_text)
    /\ LET tmp == ncalls + 1
           c == InternalFile_call(path, size, is_text, fsTmp, tmp, in)
       IN /\ last' = c
          /\ size' = c.size
          /\ fsTmp' = c.fs
          /\ stagedTmps' = IF c.staged THEN stagedTmps \cup {tmp} ELSE stagedTmps
    /\ ncalls' = ncalls + 1
    /\ resolved' = resolved + 1
    /\ UNCHANGED <<path, is_text, origin>>

----------------------------------------------------------------------------
(* Idle values of the parts a specification does not exercise *)

ResolverIdle ==
    /\ path = LocalFile /\ is_text = TRUE /\ origin = LocalFile /\ size = Zero
    /\ resolved = 0 /\ fsTmp = {} /\ ncalls = 0 /\ stagedTmps = {} /\ last = NoCall

FmtIdle == fmt_n = Zero /\ fmt_out = NoFmt

----------------------------------------------------------------------------
(* The size formatter applied to every byte count *)

FmtInit == fmt_n \in ByteCounts /\ fmt_out = NoFmt

Format ==
    /\ fmt_out.raised = "pending"
    /\ fmt_out' = SizeFormatter(fmt_n)
    /\ UNCHANGED fmt_n

----------------------------------------------------------------------------
(* Generated names *)

Letters ==
    {"a", "b", "c", "d", "e", "f", "g", "h", "i", "j", "k", "l", "m",
     "n", "o", "p", "q", "r", "s", "t", "u", "v", "w", "x", "y", "z",
     "A", "B", "C", "D", "E", "F", "G", "H", "I", "J", "K", "L", "M",
     "N", "O", "P", "Q", "R", "S", "T", "U", "V", "W", "X", "Y", "Z"}

string_digits == <<"0", "1", "2", "3", "4", "5", "6", "7", "8", "9">>

AllDigits == {string_digits[i] : i \in DOMAIN string_digits}

\* the class [a-zA-Z0-9_]
WordChars == Letters \cup AllDigits \cup {"_"}

\* os.path.basename: what follows the last "/"
basename(p) ==
    LET slashes == {i \in DOMAIN p : p[i] = "/"}
        from == IF slashes = {} THEN 1
                ELSE (CHOOSE i \in slashes : \A j \in slashes : j <= i) + 1
    IN SubSeq(p, from, Len(p))

\* re.sub('[^a-zA-Z0-9_]', '_', s)
sanitize(s) == [i \in DOMAIN s |-> IF s[i] \in WordChars THEN s[i] ELSE "_"]

\* "%s_%s" % (self._base_name, name)
generated_name(base, p) == base \o <<"_">> \o sanitize(basename(p))

\* the digits random.choice draws from
DigitChars == {string_digits[i] : i \in 1..NumDigitChars}

\* ''.join([random.choice(string.digits) for _ in range(2)])
Endings == {<<a, b>> : a \in DigitChars, b \in DigitChars}

----------------------------------------------------------------------------
(* MultipleFiles, filled by the loop of FileGlobClass.convert *)

BaseD == <<"d">>
BaseData == <<"d", "a", "t", "a">>
BaseDashed == <<"m", "-", "d">>

\* the names an IncludeMultipleFiles parameter is declared with
BaseNames == {BaseD, BaseData, BaseDashed}

EmptyFiles == [k \in {} |-> <<>>]

name_never_taken(fs, nm, e) == FALSE

\* name + ending in self._files
name_taken(fs, nm, e) == (nm \o e) \in DOMAIN fs

\* self._files[name] = path
store(fs, nm, p) == [k \in DOMAIN fs \cup {nm} |-> IF k = nm THEN p ELSE fs[k]]

\* MultipleFiles.get_reference_dict
get_reference_dict == [k \in DOMAIN files |-> files[k]]

\* MultipleFiles.__init__ behind FileGlobClass.convert, before the loop
FilesInit ==
    /\ base_name \in BaseNames
    /\ matches \in GlobResults
    /\ files = EmptyFiles
    /\ idx = 1
    /\ pc = "glob"
    /\ name = <<>>
    /\ ending = <<>>
    /\ order = <<>>
    /\ skipped = {}

FilesIdle ==
    /\ base_name = BaseD /\ matches = <<>> /\ files = EmptyFiles /\ idx = 1
    /\ pc = "idle" /\ name = <<>> /\ ending = <<>> /\ order = <<>> /\ skipped = {}

probe_always_ok(p) == TRUE

\* convert, lines 159-164: the try/except/else around open(path, mode='r')
probe_ok(p) == can_open(p)

\* convert, lines 159-163: the match cannot be opened and is skipped
ConvertSkip ==
    /\ pc = "glob"
    /\ idx <= Len(matches)
    /\ ~probe_ok(matches[idx])
    /\ skipped' = skipped \cup {matches[idx]}
    /\ idx' = idx + 1
    /\ UNCHANGED <<base_name, files, matches, pc, name, ending, order>>

\* convert, line 165, and add_file, lines 104-108
AddFileBegin ==
    /\ pc = "glob"
    /\ idx <= Len(matches)
    /\ probe_ok(matches[idx])
    /\ name' = generated_name(base_name, matches[idx])
    /\ ending' = <<>>
    /\ pc' = "while"
    /\ UNCHANGED <<base_name, files, matches, idx, order, skipped>>

\* add_file, lines 109-110: one turn of the loop, random.choice draws e
AddFileRetry(e) ==
    /\ pc = "while"
    /\ name_taken(files, name, ending)
    /\ ending' = e
    /\ UNCHANGED <<base_name, files, matches, idx, pc, name, order, skipped>>

\* add_file, lines 111-112: the loop is left and the path registered
AddFileStore ==
    /\ pc = "while"
    /\ ~name_taken(files, name, ending)
    /\ files' = store(files, name \o ending, matches[idx])
    /\ order' = Append(order, name \o ending)
    /\ idx' = idx + 1
    /\ pc' = "glob"
    /\ name' = <<>>
    /\ ending' = <<>>
    /\ UNCHANGED <<base_name, matches, skipped>>

\* convert, line 167
ConvertReturn ==
    /\ pc = "glob"
    /\ idx > Len(matches)
    /\ pc' = "done"
    /\ UNCHANGED <<base_name, files, matches, idx, name, ending, order, skipped>>

----------------------------------------------------------------------------
(* Specifications *)

Init == ResolverInit /\ FilesIdle /\ FmtIdle

Next ==
    \/ \E v \in FilePathValues, t \in BOOLEAN :
          FilePathConvert(v, t) /\ UNCHANGED <<filesVars, fmtVars>>
    \/ \E v \in FilePathValues :
          FilePathConvertFail(v) /\ UNCHANGED <<filesVars, fmtVars>>
    \/ \E in \in CallInputs(is_text) :
          Resolve(in) /\ UNCHANGED <<filesVars, fmtVars>>

Spec == Init /\ [][Next]_vars

FilesSpecInit == FilesInit /\ ResolverIdle /\ FmtIdle

FilesNext ==
    \/ ConvertSkip /\ UNCHANGED <<resolverVars, fmtVars>>
    \/ AddFileBegin /\ UNCHANGED <<resolverVars, fmtVars>>
    \/ \E e \in Endings : AddFileRetry(e) /\ UNCHANGED <<resolverVars, fmtVars>>
    \/ AddFileStore /\ UNCHANGED <<resolverVars, fmtVars>>
    \/ ConvertReturn /\ UNCHANGED <<resolverVars, fmtVars>>

FilesSpec == FilesSpecInit /\ [][FilesNext]_vars

\* random.choice is fair: an ending that can be drawn again and again is
\* drawn; the interpreter keeps running the loop and the calls after it.
FairFilesSpec ==
    /\ FilesSpec
    /\ WF_vars(ConvertSkip /\ UNCHANGED <<resolverVars, fmtVars>>)
    /\ WF_vars(AddFileBegin /\ UNCHANGED <<resolverVars, fmtVars>>)
    /\ WF_vars(AddFileStore /\ UNCHANGED <<resolverVars, fmtVars>>)
    /\ WF_vars(ConvertReturn /\ UNCHANGED <<resolverVars, fmtVars>>)
    /\ \A e \in Endings : SF_vars(AddFileRetry(e) /\ UNCHANGED <<resolverVars, fmtVars>>)

FmtSpecInit == FmtInit /\ ResolverIdle /\ FilesIdle

FmtNext == Format /\ UNCHANGED <<resolverVars, filesVars>>

FmtSpec == FmtSpecInit /\ [][FmtNext]_vars

----------------------------------------------------------------------------
(* Claims about InternalFile, checked under Spec *)

\* C1: after a resolve() call on an s3:// path in which staging completed,
\* the temporary file of that call is gone, however the read ended; this
\* holds for the temporary file of every such call of the behaviour.
C1_StagedTempRemoved ==
    /\ last.staged => last.tmp \notin fsTmp
    /\ stagedTmps \cap fsTmp = {}

C1_Witness ==
    /\ last.staged /\ last.raised = "UnicodeDecodeError"
    /\ Cardinality(stagedTmps) >= 2

\* C2: when s3.get fails, the storage error reaches the caller and the
\* temporary file created for staging no longer exists.
C2_GetFailureLeavesNoTemp ==
    (last.remote /\ last.in.logFetch /\ ~last.in.get)
        => (last.raised = "S3Error" /\ last.tmp \notin fsTmp)

C7_LoggerFailureHarmless ==
    (/\ last.raised # "nocall" /\ last.at # "convert"
     /\ (~last.in.logFetch \/ ~last.in.logInclude)
     /\ last.in.get /\ last.in.stat /\ last.in.rd = "ok"
     /\ SizeFormatter(last.in.sz).raised = "none")
        => (/\ last.raised = "none"
            /\ last.content # "none"
            /\ last.remote => last.tmp \notin fsTmp)

\* C8: size() is 0 until the first resolve() call of the object, it is the
\* byte size of the file after a resolve() that returned, and name() is the
\* path the object was built with.
C8_SizeAndName ==
    /\ resolved = 0 => InternalFile_size = Zero
    /\ (resolved > 0 /\ last.raised = "none") => InternalFile_size = last.in.sz
    /\ InternalFile_name = origin

C8_Witness ==
    /\ resolved > 0 /\ last.raised = "none" /\ ~last.remote /\ is_text
    /\ InternalFile_size = Bytes(5000)

----------------------------------------------------------------------------
(* Claims about the size formatter, checked under FmtSpec *)

\* C9: for every byte count the loop makes at most 4 divisions, ends on a
\* unit among B, KB, MB, GB, TB with a value below 1024 unless the unit is
\* TB, gives the hint exactly from GB on and raises nothing; 1023 is 1023 B,
\* 1024 is 1 KB, 1024**3 is 1 GB with the hint, 1024**5 is reported in TB.
C9_FormatterTotal ==
    fmt_out.raised # "pending" =>
        /\ fmt_out.raised = "none"
        /\ fmt_out.steps <= 4
        /\ fmt_out.unit \in {"B", "KB", "MB", "GB", "TB"}
        /\ (Len(fmt_out.sz) = 1 \/ fmt_out.unit = "TB")
        /\ (fmt_out.extra # "") <=> (fmt_out.pos >= 3)
        /\ fmt_n = Bytes(1023) =>
              (fmt_out.sz = Bytes(1023) /\ fmt_out.unit = "B" /\ fmt_out.extra = "")
        /\ fmt_n = Bytes(1024) =>
              (fmt_out.sz = Bytes(1) /\ fmt_out.unit = "KB" /\ fmt_out.extra = "")
        /\ fmt_n = Pow1024(3) =>
              (fmt_out.sz = Bytes(1) /\ fmt_out.unit = "GB" /\ fmt_out.extra # "")
        /\ fmt_n = Pow1024(5) => fmt_out.unit = "TB"

----------------------------------------------------------------------------
(* Claims about MultipleFiles, checked under FilesSpec and FairFilesSpec *)

\* the matches add_file has registered so far, in order
AddedPaths ==
    LET done == SubSeq(matches, 1, idx - 1)
        ok(p) == p \in OpenableFiles
    IN SelectSeq(done, ok)

\* C3: every completed add_file gives its path a name no earlier path holds:
\* the names are pairwise distinct, no entry is overwritten, and after k
\* completed calls the collection has k entries.
C3_NamesDistinct ==
    /\ Len(order) = Len(AddedPaths)
    /\ Cardinality(DOMAIN files) = Len(AddedPaths)
    /\ \A i \in DOMAIN order :
          /\ order[i] \in DOMAIN files
          /\ files[order[i]] = AddedPaths[i]
          /\ \A j \in DOMAIN order : i # j => order[i] # order[j]

C3_Witness ==
    \E i, j \in DOMAIN order :
        /\ i < j
        /\ generated_name(base_name, files[order[i]])
             = generated_name(base_name, files[order[j]])
        /\ basename(files[order[i]]) # basename(files[order[j]])

\* C4: every key of the entries map consists of characters of [A-Za-z0-9_]
\* only and starts with the base name followed by "_".
C4_KeysAreIdentifiers ==
    \A k \in DOMAIN files :
        /\ Len(k) > 0
        /\ \A i \in DOMAIN k : k[i] \in WordChars
        /\ startswith(k, base_name \o <<"_">>)

C10_RetryLoopEnds == (pc = "while") ~> (pc = "glob")

====
